---- MODULE Spec2Model ----
(***************************************************************************)
(* Time-locked savings vault (src/src/lib.rs): the ledger of deposit       *)
(* records, the aggregate total_locked, the rate parameters, the owner and *)
(* the emergency flag, with one action per public entry point.             *)
(*                                                                         *)
(* The host supplies msg_sender, msg_value, block_timestamp and            *)
(* transfer_eth.  Each entry point is an operator from the storage before  *)
(* the call and the call's inputs to the storage after it, the value it    *)
(* returns and the transfer it made: the handler's own storage writes in   *)
(* the order the source makes them.  Nothing is undone when a handler      *)
(* returns Err, because the handlers contain no code that undoes a write;  *)
(* a host that discards the writes of a call that returned Err is not part *)
(* of the source and not part of this model.                               *)
(***************************************************************************)
EXTENDS Integers, FiniteSets, Sequences, TLC

\* ---------------------------------------------------------------- bounds

\* Width of the modelled machine word: U256 is modelled as WordBits bits.
WordBits == 29

\* Stands for the fixed-point denominator 10^18 of the reward rate, scaled
\* down with the word.
RewardPrecision == 200000

\* Number of times the clock is advanced.
MaxTicks == 2

\* Number of successful deposit calls.
MaxDeposits == 2

\* ------------------------------------------------------ program constants

BASIS_POINTS == 10000
SECONDS_PER_DAY == 86400
MIN_LOCK_PERIOD == 86400
MAX_LOCK_PERIOD == 31536000
PENALTY_PERCENT == 15
PERCENT_DENOMINATOR == 100

\* ----------------------------------------------------------------- inputs

\* Address::ZERO, the owner slot's value before initialize.
ZERO == "0x0"

\* msg_sender of a call.
Users == {"alice", "bob"}

\* msg_value of a deposit call.
Values == {0, 7}

\* lock_period argument of the deposit calls that are made: the shortest
\* period, one below it and one above the longest.  (The claims about the
\* limits try the longest period and its neighbours in every state.)
LockPeriods == {MIN_LOCK_PERIOD - 1, MIN_LOCK_PERIOD, MAX_LOCK_PERIOD + 1}

\* base_reward_rate arguments of initialize and update_reward_rate.
Rates == {0, 1}

\* time_bonus_multiplier arguments of initialize.
Multipliers == {2000}

\* Amounts by which block_timestamp grows between calls.
Steps == {MIN_LOCK_PERIOD}

\* block_timestamp of the first call.
StartTimes == {1}

VARIABLES
  deposits,               \* mapping(address => Deposit)
  total_locked,           \* uint256 total_locked
  owner,                  \* address owner
  emergency_mode,         \* bool emergency_mode
  base_reward_rate,       \* uint256 base_reward_rate
  time_bonus_multiplier,  \* uint256 time_bonus_multiplier
  held,                   \* value held by the vault: deposits received minus transfers sent
  now,                    \* block_timestamp of the host
  ticks,                  \* how often the clock has been advanced
  deposit_count           \* how many deposit calls have succeeded

vars ==
  <<deposits, total_locked, owner, emergency_mode, base_reward_rate,
    time_bonus_multiplier, held, now, ticks, deposit_count>>

\* The contract's storage, and the value it holds, as one record.
Storage ==
  [deposits |-> deposits,
   total_locked |-> total_locked,
   owner |-> owner,
   emergency_mode |-> emergency_mode,
   base_reward_rate |-> base_reward_rate,
   time_bonus_multiplier |-> time_bonus_multiplier,
   held |-> held]

\* ------------------------------------------------------- U256 arithmetic

Modulus == 2 ^ WordBits

\* U256 `+`: the sum reduced modulo the word.
wrapping_add(a, b) == (a + b) % Modulus

\* U256 `-`: the difference reduced modulo the word.
wrapping_sub(a, b) == (a - b + Modulus) % Modulus

\* Largest integer the model checker computes with.
CheckerMaxInt == (2 ^ 30 - 1) * 2 + 1

\* a * b modulo the word by doubling, so that no intermediate value leaves
\* the range of the model checker.
RECURSIVE mul_by_doubling(_, _)
mul_by_doubling(a, b) ==
  IF b = 0 THEN 0
  ELSE LET d == (2 * mul_by_doubling(a, b \div 2)) % Modulus
       IN  IF b % 2 = 1 THEN (d + a) % Modulus ELSE d

\* U256 `*`: the product reduced modulo the word.
wrapping_mul(a, b) ==
  IF a = 0 \/ b <= CheckerMaxInt \div a
  THEN (a * b) % Modulus
  ELSE mul_by_doubling(a, b)

\* ------------------------------------------------------------ the ledger

\* A Deposit whose five slots are zero: the value of an unwritten mapping
\* entry.
EmptyDeposit ==
  [amount |-> 0, lock_time |-> 0, unlock_time |-> 0,
   last_reward_claim |-> 0, accumulated_rewards |-> 0]

\* What a call leaves behind: the storage after it, the Result it returns
\* ("Ok" or the error's name, with the error's numeric field), and the
\* transfer_eth it made (whether one was attempted, the value sent, and the
\* recipient, which SentTo fills in).
Outcome(st, result, err, attempted, paid) ==
  [st |-> st, result |-> result, err |-> err,
   attempted |-> attempted, paid |-> paid, to |-> ZERO]

\* Mutant of SentTo: the recipient is the owner.
sent_to_owner(o, to) == [o EXCEPT !.to = o.st.owner]

\* The recipient of the transfer_eth a call made: its first argument.
SentTo(o, to) == [o EXCEPT !.to = to]

\* An early `return Err(..)`: no storage slot was written, nothing was sent.
Reject(st, result, err) == Outcome(st, result, err, FALSE, 0)

\* vm().transfer_eth(to, amount): Ok only when the vault holds the amount
\* and the recipient accepts it.
transfer_eth(st, amount, accept) == accept /\ st.held >= amount

\* Mutant of reset_user_deposit: the write of accumulated_rewards is missing.
reset_user_deposit_keeps_rewards(st, sender) ==
  [st EXCEPT !.deposits[sender] =
     [amount |-> 0, lock_time |-> 0, unlock_time |-> 0,
      last_reward_claim |-> 0,
      accumulated_rewards |-> st.deposits[sender].accumulated_rewards]]

\* The five writes that reset a deposit (withdraw; emergency_withdraw makes
\* the same five writes).
reset_user_deposit(st, sender) ==
  [st EXCEPT !.deposits[sender] =
     [amount |-> 0, lock_time |-> 0, unlock_time |-> 0,
      last_reward_claim |-> 0, accumulated_rewards |-> 0]]

\* Mutant of lock_period_invalid: the two limits themselves are rejected.
lock_period_invalid_at_limits(lock_period) ==
  lock_period <= MIN_LOCK_PERIOD \/ lock_period >= MAX_LOCK_PERIOD

\* deposit's test of the lock period: below one day or above 365 days.
lock_period_invalid(lock_period) ==
  lock_period < MIN_LOCK_PERIOD \/ lock_period > MAX_LOCK_PERIOD

\* Mutant of funds_still_locked: still locked at unlock_time itself.
funds_still_locked_at_unlock(current_time, unlock_time) ==
  current_time <= unlock_time

\* withdraw's test of the lock.
funds_still_locked(current_time, unlock_time) == current_time < unlock_time

\* Mutant of withdraw_amount_to_be_paid: the rewards are left out.
withdraw_principal_only(amount, total_rewards) == amount

\* withdraw's payout: the principal plus all rewards.
withdraw_amount_to_be_paid(amount, total_rewards) ==
  wrapping_add(amount, total_rewards)

\* Mutant of emergency_penalty: 15 basis points instead of 15 percent.
emergency_penalty_basis_points(amount) ==
  wrapping_mul(amount, PENALTY_PERCENT) \div BASIS_POINTS

\* emergency_withdraw's penalty.
emergency_penalty(amount) ==
  wrapping_mul(amount, PENALTY_PERCENT) \div PERCENT_DENOMINATOR

\* Mutant of settle_claim: the write of last_reward_claim is missing.
settle_claim_keeps_time(st, sender, current_time) ==
  [st EXCEPT !.deposits[sender].accumulated_rewards = 0]

\* Mutant of settle_claim: the claim time written is the record's
\* unlock_time instead of the current time.
settle_claim_at_unlock(st, sender, current_time) ==
  [st EXCEPT !.deposits[sender].last_reward_claim =
               st.deposits[sender].unlock_time,
             !.deposits[sender].accumulated_rewards = 0]

\* claim_rewards' two writes: the claim time and the reset of the rewards.
settle_claim(st, sender, current_time) ==
  [st EXCEPT !.deposits[sender].last_reward_claim = current_time,
             !.deposits[sender].accumulated_rewards = 0]

\* Mutant of initialize: the test of the owner slot is missing.
initialize_unguarded(st, sender, rate, multiplier) ==
  Outcome([st EXCEPT !.owner = sender,
                     !.base_reward_rate = rate,
                     !.time_bonus_multiplier = multiplier,
                     !.emergency_mode = FALSE],
          "Ok", 0, FALSE, 0)

\* Mutant of initialize: the owner may initialize again.
initialize_again_by_owner(st, sender, rate, multiplier) ==
  IF st.owner # ZERO /\ st.owner # sender
  THEN Reject(st, "Unauthorized", 0)
  ELSE Outcome([st EXCEPT !.owner = sender,
                          !.base_reward_rate = rate,
                          !.time_bonus_multiplier = multiplier,
                          !.emergency_mode = FALSE],
               "Ok", 0, FALSE, 0)

initialize(st, sender, rate, multiplier) ==
  IF st.owner # ZERO
  THEN Reject(st, "Unauthorized", 0)
  ELSE Outcome([st EXCEPT !.owner = sender,
                          !.base_reward_rate = rate,
                          !.time_bonus_multiplier = multiplier,
                          !.emergency_mode = FALSE],
               "Ok", 0, FALSE, 0)

\* Mutant of calculate_pending_rewards: the division by the precision is
\* done before the multiplication by the amount.
calculate_pending_rewards_divides_first(st, t, user) ==
  LET user_deposit == st.deposits[user]
      amount == user_deposit.amount
  IN  IF amount = 0 THEN 0
      ELSE
        LET time_elapsed == wrapping_sub(t, user_deposit.last_reward_claim)
            base_reward ==
              wrapping_mul(amount,
                           wrapping_mul(st.base_reward_rate, time_elapsed)
                             \div RewardPrecision)
            lock_duration ==
              wrapping_sub(user_deposit.unlock_time, user_deposit.lock_time)
            bonus_multiplier ==
              wrapping_add(BASIS_POINTS,
                           wrapping_mul(st.time_bonus_multiplier, lock_duration)
                             \div SECONDS_PER_DAY)
        IN  wrapping_mul(base_reward, bonus_multiplier) \div BASIS_POINTS

\* Unsettled interest of `user` at block_timestamp t.
calculate_pending_rewards(st, t, user) ==
  LET user_deposit == st.deposits[user]
      amount == user_deposit.amount
  IN  IF amount = 0 THEN 0
      ELSE
        LET current_time == t
            time_elapsed == wrapping_sub(current_time, user_deposit.last_reward_claim)
            base_reward ==
              wrapping_mul(wrapping_mul(amount, st.base_reward_rate), time_elapsed)
                \div RewardPrecision
            lock_duration ==
              wrapping_sub(user_deposit.unlock_time, user_deposit.lock_time)
            bonus_multiplier ==
              wrapping_add(BASIS_POINTS,
                           wrapping_mul(st.time_bonus_multiplier, lock_duration)
                             \div SECONDS_PER_DAY)
        IN  wrapping_mul(base_reward, bonus_multiplier) \div BASIS_POINTS

\* Mutant of deposit: the unsettled interest of the prior record is not
\* added to accumulated_rewards.
deposit_drops_pending(st, t, sender, amount, lock_period) ==
  IF st.emergency_mode
  THEN Reject(st, "EmergencyModeActive", 0)
  ELSE IF amount = 0
  THEN Reject(st, "InsufficientBalance", amount)
  ELSE IF lock_period_invalid(lock_period)
  THEN Reject(st, "InvalidLockPeriod", lock_period)
  ELSE Outcome([st EXCEPT
                  !.deposits[sender] =
                     [amount |-> amount,
                      lock_time |-> t,
                      unlock_time |-> wrapping_add(t, lock_period),
                      last_reward_claim |-> t,
                      accumulated_rewards |->
                        st.deposits[sender].accumulated_rewards],
                  !.total_locked = wrapping_add(st.total_locked, amount),
                  !.held = st.held + amount],
               "Ok", 0, FALSE, 0)

\* Mutant of deposit: a deposit on top of an active record keeps the
\* record's lock_time.
deposit_keeps_lock_time(st, t, sender, amount, lock_period) ==
  IF st.emergency_mode
  THEN Reject(st, "EmergencyModeActive", 0)
  ELSE IF amount = 0
  THEN Reject(st, "InsufficientBalance", amount)
  ELSE IF lock_period_invalid(lock_period)
  THEN Reject(st, "InvalidLockPeriod", lock_period)
  ELSE
    LET user_deposit == st.deposits[sender]
    IN  Outcome([st EXCEPT
                   !.deposits[sender] =
                      [amount |-> amount,
                       lock_time |->
                         IF user_deposit.amount > 0
                         THEN user_deposit.lock_time
                         ELSE t,
                       unlock_time |-> wrapping_add(t, lock_period),
                       last_reward_claim |-> t,
                       accumulated_rewards |->
                         IF user_deposit.amount > 0
                         THEN wrapping_add(user_deposit.accumulated_rewards,
                                           calculate_pending_rewards(st, t, sender))
                         ELSE user_deposit.accumulated_rewards],
                   !.total_locked = wrapping_add(st.total_locked, amount),
                   !.held = st.held + amount],
                "Ok", 0, FALSE, 0)

\* Mutant of deposit: total_locked is set to the deposited value instead of
\* being raised by it.
deposit_sets_total(st, t, sender, amount, lock_period) ==
  IF st.emergency_mode
  THEN Reject(st, "EmergencyModeActive", 0)
  ELSE IF amount = 0
  THEN Reject(st, "InsufficientBalance", amount)
  ELSE IF lock_period_invalid(lock_period)
  THEN Reject(st, "InvalidLockPeriod", lock_period)
  ELSE
    LET user_deposit == st.deposits[sender]
    IN  Outcome([st EXCEPT
                   !.deposits[sender] =
                      [amount |-> amount,
                       lock_time |-> t,
                       unlock_time |-> wrapping_add(t, lock_period),
                       last_reward_claim |-> t,
                       accumulated_rewards |->
                         IF user_deposit.amount > 0
                         THEN wrapping_add(user_deposit.accumulated_rewards,
                                           calculate_pending_rewards(st, t, sender))
                         ELSE user_deposit.accumulated_rewards],
                   !.total_locked = amount,
                   !.held = st.held + amount],
                "Ok", 0, FALSE, 0)

deposit(st, t, sender, amount, lock_period) ==
  IF st.emergency_mode
  THEN Reject(st, "EmergencyModeActive", 0)
  ELSE IF amount = 0
  THEN Reject(st, "InsufficientBalance", amount)
  ELSE IF lock_period_invalid(lock_period)
  THEN Reject(st, "InvalidLockPeriod", lock_period)
  ELSE
    LET pending_rewards == calculate_pending_rewards(st, t, sender)
        current_time == t
        user_deposit == st.deposits[sender]
        accumulated_rewards ==
          IF user_deposit.amount > 0
          THEN wrapping_add(user_deposit.accumulated_rewards, pending_rewards)
          ELSE user_deposit.accumulated_rewards
        unlock_time == wrapping_add(current_time, lock_period)
    IN  Outcome([st EXCEPT
                   !.deposits[sender] =
                      [amount |-> amount,
                       lock_time |-> current_time,
                       unlock_time |-> unlock_time,
                       last_reward_claim |-> current_time,
                       accumulated_rewards |-> accumulated_rewards],
                   !.total_locked = wrapping_add(st.total_locked, amount),
                   !.held = st.held + amount],
                "Ok", 0, FALSE, 0)

\* Mutant of cleared_before_transfer: the writes are postponed until after
\* the transfer, so the storage at the transfer is still the old one.
cleared_after_transfer(st, sender) == st

\* The storage at the moment withdraw calls transfer_eth: the caller's record
\* reset and total_locked decreased by the amount (emergency_withdraw makes
\* the same writes before its transfer).
cleared_before_transfer(st, sender) ==
  [reset_user_deposit(st, sender) EXCEPT
     !.total_locked = wrapping_sub(st.total_locked, st.deposits[sender].amount)]

\* Mutant of withdraw: the test for an empty record is missing.
withdraw_without_deposit_test(st, t, sender, accept) ==
  LET user_deposit == st.deposits[sender]
      amount == user_deposit.amount
  IN  IF funds_still_locked(t, user_deposit.unlock_time)
      THEN Reject(st, "FundsStillLocked", user_deposit.unlock_time)
      ELSE
        LET pending_rewards == calculate_pending_rewards(st, t, sender)
            total_rewards ==
              wrapping_add(pending_rewards, user_deposit.accumulated_rewards)
            written ==
              [reset_user_deposit(st, sender) EXCEPT
                 !.total_locked = wrapping_sub(st.total_locked, amount)]
            total_amount_to_be_paid ==
              withdraw_amount_to_be_paid(amount, total_rewards)
        IN  IF transfer_eth(written, total_amount_to_be_paid, accept)
            THEN Outcome([written EXCEPT !.held = @ - total_amount_to_be_paid],
                         "Ok", 0, TRUE, total_amount_to_be_paid)
            ELSE Outcome(written, "TransferFailed", 0, TRUE, 0)

withdraw(st, t, sender, accept) ==
  LET user_deposit == st.deposits[sender]
      amount == user_deposit.amount
  IN  IF amount = 0
      THEN Reject(st, "NoDeposit", 0)
      ELSE IF funds_still_locked(t, user_deposit.unlock_time)
      THEN Reject(st, "FundsStillLocked", user_deposit.unlock_time)
      ELSE
        LET pending_rewards == calculate_pending_rewards(st, t, sender)
            total_rewards ==
              wrapping_add(pending_rewards, user_deposit.accumulated_rewards)
            written == cleared_before_transfer(st, sender)
            total_amount_to_be_paid ==
              withdraw_amount_to_be_paid(amount, total_rewards)
        IN  IF transfer_eth(written, total_amount_to_be_paid, accept)
            THEN SentTo(Outcome([written EXCEPT !.held = @ - total_amount_to_be_paid],
                                "Ok", 0, TRUE, total_amount_to_be_paid), sender)
            ELSE SentTo(Outcome(written, "TransferFailed", 0, TRUE, 0), sender)

\* Mutant of emergency_withdraw: the test of the emergency flag is missing.
emergency_withdraw_ungated(st, sender, accept) ==
  LET user_deposit == st.deposits[sender]
      amount == user_deposit.amount
  IN  IF amount = 0
      THEN Reject(st, "NoDeposit", 0)
      ELSE
        LET penalty == emergency_penalty(amount)
            total_amount_to_be_paid == wrapping_sub(amount, penalty)
            written ==
              [reset_user_deposit(st, sender) EXCEPT
                 !.total_locked = wrapping_sub(st.total_locked, amount)]
        IN  IF transfer_eth(written, total_amount_to_be_paid, accept)
            THEN Outcome([written EXCEPT !.held = @ - total_amount_to_be_paid],
                         "Ok", 0, TRUE, total_amount_to_be_paid)
            ELSE Outcome(written, "TransferFailed", 0, TRUE, 0)

emergency_withdraw(st, sender, accept) ==
  IF ~st.emergency_mode
  THEN Reject(st, "EmergencyModeNotActive", 0)
  ELSE
    LET user_deposit == st.deposits[sender]
        amount == user_deposit.amount
    IN  IF amount = 0
        THEN Reject(st, "NoDeposit", 0)
        ELSE
          LET penalty == emergency_penalty(amount)
              total_amount_to_be_paid == wrapping_sub(amount, penalty)
              written == cleared_before_transfer(st, sender)
          IN  IF transfer_eth(written, total_amount_to_be_paid, accept)
              THEN SentTo(Outcome([written EXCEPT !.held = @ - total_amount_to_be_paid],
                                  "Ok", 0, TRUE, total_amount_to_be_paid), sender)
              ELSE SentTo(Outcome(written, "TransferFailed", 0, TRUE, 0), sender)

\* Mutant of activate_emergency_mode: the owner is tested before the flag.
activate_emergency_mode_owner_first(st, sender) ==
  IF st.owner # sender
  THEN Reject(st, "Unauthorized", 0)
  ELSE IF st.emergency_mode
  THEN Reject(st, "EmergencyModeActive", 0)
  ELSE Outcome([st EXCEPT !.emergency_mode = TRUE], "Ok", 0, FALSE, 0)

\* Mutant of activate_emergency_mode: activation also sets the reward rate
\* to zero.
activate_emergency_mode_stops_rewards(st, sender) ==
  IF st.emergency_mode
  THEN Reject(st, "EmergencyModeActive", 0)
  ELSE IF st.owner # sender
  THEN Reject(st, "Unauthorized", 0)
  ELSE Outcome([st EXCEPT !.emergency_mode = TRUE, !.base_reward_rate = 0],
               "Ok", 0, FALSE, 0)

activate_emergency_mode(st, sender) ==
  IF st.emergency_mode
  THEN Reject(st, "EmergencyModeActive", 0)
  ELSE IF st.owner # sender
  THEN Reject(st, "Unauthorized", 0)
  ELSE Outcome([st EXCEPT !.emergency_mode = TRUE], "Ok", 0, FALSE, 0)

\* Mutant of claim_rewards: the early return for a total of zero is missing.
claim_rewards_transfers_zero(st, t, sender, accept) ==
  LET user_deposit == st.deposits[sender]
  IN  IF user_deposit.amount = 0
      THEN Reject(st, "NoDeposit", 0)
      ELSE
        LET pending == calculate_pending_rewards(st, t, sender)
            total_rewards == wrapping_add(user_deposit.accumulated_rewards, pending)
            written == settle_claim(st, sender, t)
        IN  IF transfer_eth(written, total_rewards, accept)
            THEN Outcome([written EXCEPT !.held = @ - total_rewards],
                         "Ok", 0, TRUE, total_rewards)
            ELSE Outcome(written, "TransferFailed", 0, TRUE, 0)

claim_rewards(st, t, sender, accept) ==
  LET user_deposit == st.deposits[sender]
  IN  IF user_deposit.amount = 0
      THEN Reject(st, "NoDeposit", 0)
      ELSE
        LET pending == calculate_pending_rewards(st, t, sender)
            total_rewards == wrapping_add(user_deposit.accumulated_rewards, pending)
        IN  IF total_rewards = 0
            THEN Outcome(st, "Ok", 0, FALSE, 0)
            ELSE
              LET current_time == t
                  written == settle_claim(st, sender, current_time)
              IN  IF transfer_eth(written, total_rewards, accept)
                  THEN SentTo(Outcome([written EXCEPT !.held = @ - total_rewards],
                                      "Ok", 0, TRUE, total_rewards), sender)
                  ELSE SentTo(Outcome(written, "TransferFailed", 0, TRUE, 0), sender)

\* Mutant of update_reward_rate: the test of the caller is missing.
update_reward_rate_by_anyone(st, sender, new_rate) ==
  Outcome([st EXCEPT !.base_reward_rate = new_rate], "Ok", 0, FALSE, 0)

update_reward_rate(st, sender, new_rate) ==
  IF sender # st.owner
  THEN Reject(st, "Unauthorized", 0)
  ELSE Outcome([st EXCEPT !.base_reward_rate = new_rate], "Ok", 0, FALSE, 0)

\* Mutant of get_deposit_info: the stored rewards only, without the
\* unsettled interest.
get_deposit_info_stored_rewards(st, t, user) ==
  <<st.deposits[user].amount,
    st.deposits[user].unlock_time,
    st.deposits[user].accumulated_rewards,
    st.deposits[user].lock_time>>

\* View: (amount, unlock_time, accumulated_rewards + pending, lock_time).
get_deposit_info(st, t, user) ==
  LET deposit_ == st.deposits[user]
      pending == calculate_pending_rewards(st, t, user)
  IN  <<deposit_.amount,
        deposit_.unlock_time,
        wrapping_add(deposit_.accumulated_rewards, pending),
        deposit_.lock_time>>

get_total_locked(st) == st.total_locked

\* ------------------------------------------------------- the state machine

Init ==
  /\ deposits = [u \in Users |-> EmptyDeposit]
  /\ total_locked = 0
  /\ owner = ZERO
  /\ emergency_mode = FALSE
  /\ base_reward_rate = 0
  /\ time_bonus_multiplier = 0
  /\ held = 0
  /\ now \in StartTimes
  /\ ticks = 0
  /\ deposit_count = 0

\* The storage after a call becomes the contract's storage.
Commit(o) ==
  /\ deposits' = o.st.deposits
  /\ total_locked' = o.st.total_locked
  /\ owner' = o.st.owner
  /\ emergency_mode' = o.st.emergency_mode
  /\ base_reward_rate' = o.st.base_reward_rate
  /\ time_bonus_multiplier' = o.st.time_bonus_multiplier
  /\ held' = o.st.held

\* The host clock: block_timestamp never decreases between calls.
AdvanceTime(step) ==
  /\ ticks < MaxTicks
  /\ now' = now + step
  /\ ticks' = ticks + 1
  /\ UNCHANGED <<deposits, total_locked, owner, emergency_mode,
                 base_reward_rate, time_bonus_multiplier, held, deposit_count>>

CallInitialize(sender, rate, multiplier) ==
  /\ Commit(initialize(Storage, sender, rate, multiplier))
  /\ UNCHANGED <<now, ticks, deposit_count>>

CallDeposit(sender, amount, lock_period) ==
  LET o == deposit(Storage, now, sender, amount, lock_period)
  IN  /\ o.result = "Ok" => deposit_count < MaxDeposits
      /\ Commit(o)
      /\ deposit_count' = IF o.result = "Ok" THEN deposit_count + 1 ELSE deposit_count
      /\ UNCHANGED <<now, ticks>>

CallWithdraw(sender, accept) ==
  /\ Commit(withdraw(Storage, now, sender, accept))
  /\ UNCHANGED <<now, ticks, deposit_count>>

CallEmergencyWithdraw(sender, accept) ==
  /\ Commit(emergency_withdraw(Storage, sender, accept))
  /\ UNCHANGED <<now, ticks, deposit_count>>

CallActivateEmergencyMode(sender) ==
  /\ Commit(activate_emergency_mode(Storage, sender))
  /\ UNCHANGED <<now, ticks, deposit_count>>

CallClaimRewards(sender, accept) ==
  /\ Commit(claim_rewards(Storage, now, sender, accept))
  /\ UNCHANGED <<now, ticks, deposit_count>>

CallUpdateRewardRate(sender, new_rate) ==
  /\ Commit(update_reward_rate(Storage, sender, new_rate))
  /\ UNCHANGED <<now, ticks, deposit_count>>

Next ==
  \/ \E step \in Steps : AdvanceTime(step)
  \/ \E s \in Users, r \in Rates, m \in Multipliers : CallInitialize(s, r, m)
  \/ \E s \in Users, v \in Values, p \in LockPeriods : CallDeposit(s, v, p)
  \/ \E s \in Users, accept \in BOOLEAN : CallWithdraw(s, accept)
  \/ \E s \in Users, accept \in BOOLEAN : CallEmergencyWithdraw(s, accept)
  \/ \E s \in Users : CallActivateEmergencyMode(s)
  \/ \E s \in Users, accept \in BOOLEAN : CallClaimRewards(s, accept)
  \/ \E s \in Users, r \in Rates : CallUpdateRewardRate(s, r)

Spec == Init /\ [][Next]_vars

\* ------------------------------------- the vault under wide parameters

\* msg_value of the first deposit, or 0 for no deposit.
RewardAmounts == {0, 1, 7, 1000}

\* base_reward_rate given to initialize: none, small, and one so large that
\* amount * rate * elapsed leaves the word.
RewardRates == {0, 1, 3, 2 ^ 20}

\* time_bonus_multiplier given to initialize.
RewardMultipliers == {0, 10, 2000}

\* lock_period of the first deposit.
RewardLockPeriods == {MIN_LOCK_PERIOD, 2 * MIN_LOCK_PERIOD, MAX_LOCK_PERIOD}

\* The storage after alice's initialize(rate, multiplier) and, when the
\* amount is positive, her deposit(lock_period) of that amount, both at the
\* first timestamp.
RewardInit ==
  \E t \in StartTimes, rate \in RewardRates, multiplier \in RewardMultipliers,
     amount \in RewardAmounts, lock_period \in RewardLockPeriods :
    LET initialized ==
          initialize([deposits |-> [u \in Users |-> EmptyDeposit],
                      total_locked |-> 0,
                      owner |-> ZERO,
                      emergency_mode |-> FALSE,
                      base_reward_rate |-> 0,
                      time_bonus_multiplier |-> 0,
                      held |-> 0],
                     "alice", rate, multiplier)
        deposited == deposit(initialized.st, t, "alice", amount, lock_period)
    IN  /\ amount = 0 => lock_period = MIN_LOCK_PERIOD
        /\ deposits = deposited.st.deposits
        /\ total_locked = deposited.st.total_locked
        /\ owner = deposited.st.owner
        /\ emergency_mode = deposited.st.emergency_mode
        /\ base_reward_rate = deposited.st.base_reward_rate
        /\ time_bonus_multiplier = deposited.st.time_bonus_multiplier
        /\ held = deposited.st.held
        /\ now = t
        /\ ticks = 0
        /\ deposit_count = IF deposited.result = "Ok" THEN 1 ELSE 0

\* The calls that compute rewards, and the clock.
RewardNext ==
  \/ \E step \in Steps : AdvanceTime(step)
  \/ \E s \in Users, v \in Values, p \in LockPeriods : CallDeposit(s, v, p)
  \/ \E s \in Users, accept \in BOOLEAN : CallWithdraw(s, accept)
  \/ \E s \in Users, accept \in BOOLEAN : CallClaimRewards(s, accept)

RewardSpec == RewardInit /\ [][RewardNext]_vars

\* ---------------------------------------------------------------- claims

\* The sum of the amount fields of the deposit records of the accounts in S.
RECURSIVE SumAmounts(_, _)
SumAmounts(st, S) ==
  IF S = {} THEN 0
  ELSE LET u == CHOOSE x \in S : TRUE
       IN  st.deposits[u].amount + SumAmounts(st, S \ {u})

\* The outcomes of the three calls that transfer value, made by `sender` in
\* the current state.
TransferringCalls(sender, accept) ==
  {withdraw(Storage, now, sender, accept),
   emergency_withdraw(Storage, sender, accept),
   claim_rewards(Storage, now, sender, accept)}

\* C1 (conservation): after every operation, total_locked equals the sum of
\* the amount fields of all deposit records.  The code breaks it: a deposit
\* by an account that already holds a deposit overwrites amount and still
\* adds the new value to total_locked.
C1_Conservation == total_locked = SumAmounts(Storage, Users)

\* C2 (rollback on transfer failure): whenever the transfer of withdraw,
\* emergency_withdraw or claim_rewards fails, the call returns
\* TransferFailed and the storage is what it was before the call.  The code
\* breaks it: the writes made before transfer_eth stay.
C2_RollbackOnTransferFailure ==
  \A s \in Users, accept \in BOOLEAN :
    \A o \in TransferringCalls(s, accept) :
      /\ (o.attempted /\ o.paid = 0) => o.result = "TransferFailed"
      /\ o.result = "TransferFailed" => o.st = Storage

\* C3 (lock enforcement): for an account with amount > 0, withdraw before
\* unlock_time fails with FundsStillLocked carrying that unlock_time and
\* writes nothing; at or after unlock_time it never fails with
\* FundsStillLocked.  The call is made now, or later at the last second of
\* the lock, at unlock_time itself or one second after it.
C3_LockEnforcement ==
  \A s \in Users, accept \in BOOLEAN :
    LET d == deposits[s]
    IN  \A t \in {now, d.unlock_time - 1, d.unlock_time, d.unlock_time + 1} :
          LET o == withdraw(Storage, t, s, accept)
          IN  (d.amount > 0 /\ t >= now) =>
                /\ t < d.unlock_time =>
                     /\ o.result = "FundsStillLocked"
                     /\ o.err = d.unlock_time
                     /\ o.st = Storage
                     /\ ~o.attempted
                /\ t >= d.unlock_time => o.result # "FundsStillLocked"

\* C3 witness: time has passed; one account is still locked, another
\* account's withdraw goes through at exactly its unlock_time.
C3_Witness ==
  \E s1, s2 \in Users :
    /\ deposits[s1].amount > 0
    /\ ticks > 0
    /\ now < deposits[s1].unlock_time
    /\ withdraw(Storage, now, s1, TRUE).result = "FundsStillLocked"
    /\ deposits[s2].amount > 0
    /\ now = deposits[s2].unlock_time
    /\ withdraw(Storage, now, s2, TRUE).result = "Ok"

\* C4 (withdraw payout): a successful withdraw transfers exactly
\* amount + accumulated_rewards + unsettled interest and decreases
\* total_locked by exactly amount.
C4_WithdrawPayout ==
  \A s \in Users, accept \in BOOLEAN :
    LET d == deposits[s]
        u == calculate_pending_rewards(Storage, now, s)
        o == withdraw(Storage, now, s, accept)
    IN  o.result = "Ok" =>
          /\ o.attempted
          /\ o.paid = d.amount + d.accumulated_rewards + u
          /\ o.st.held = held - o.paid
          /\ o.st.total_locked = total_locked - d.amount

\* C4 witness: a withdraw that succeeds for an account with both settled
\* and unsettled rewards.
C4_Witness ==
  \E s \in Users :
    /\ deposits[s].accumulated_rewards > 0
    /\ calculate_pending_rewards(Storage, now, s) > 0
    /\ withdraw(Storage, now, s, TRUE).result = "Ok"

\* Deposit values for which the penalty is computed: with and without a
\* remainder in the division by 100.
PenaltyAmounts == {1, 6, 7, 20, 99, 100, 101, 1000003}

\* C5 (penalty exactness): a successful emergency_withdraw transfers exactly
\* amount - floor(amount * 15 / 100), whatever the rewards are, and
\* decreases total_locked by exactly amount.  Checked for the deposits of
\* the reachable states, and for a deposit of each value of
\* PenaltyAmounts that is made now, followed by the owner's
\* activate_emergency_mode and the depositor's emergency_withdraw.
C5_PenaltyExactness ==
  /\ \A s \in Users, accept \in BOOLEAN :
       LET d == deposits[s]
           o == emergency_withdraw(Storage, s, accept)
       IN  o.result = "Ok" =>
             /\ d.amount > 0
             /\ o.attempted
             /\ o.paid = d.amount - ((d.amount * 15) \div 100)
             /\ o.st.held = held - o.paid
             /\ o.st.total_locked = total_locked - d.amount
  /\ \A s \in Users, a \in PenaltyAmounts :
       LET deposited == deposit(Storage, now, s, a, 86400)
           activated == activate_emergency_mode(deposited.st, owner)
           o == emergency_withdraw(activated.st, s, TRUE)
       IN  (owner # ZERO /\ deposited.result = "Ok" /\ activated.result = "Ok") =>
             /\ o.result = "Ok"
             /\ o.paid = a - ((a * 15) \div 100)
             /\ o.st.total_locked = deposited.st.total_locked - a

\* C5 witness: an emergency_withdraw that succeeds, pays less than the
\* principal, and forfeits settled and unsettled rewards.
C5_Witness ==
  \E s \in Users :
    LET o == emergency_withdraw(Storage, s, TRUE)
    IN  /\ o.result = "Ok"
        /\ o.paid < deposits[s].amount
        /\ deposits[s].accumulated_rewards > 0
        /\ calculate_pending_rewards(Storage, now, s) > 0

\* C6 (no double claim): when an account with a deposit calls claim_rewards
\* twice in a row at the same timestamp, the second call finds a total of
\* zero: it returns Ok, attempts no transfer and writes nothing.
C6_NoDoubleClaim ==
  \A s \in Users, a1 \in BOOLEAN, a2 \in BOOLEAN :
    LET o1 == claim_rewards(Storage, now, s, a1)
        o2 == claim_rewards(o1.st, now, s, a2)
    IN  deposits[s].amount > 0 =>
          /\ o2.result = "Ok"
          /\ o2.paid = 0
          /\ ~o2.attempted
          /\ o2.st = o1.st

\* C6 witness: the first of the two claims pays a reward.
C6_Witness ==
  \E s \in Users : claim_rewards(Storage, now, s, TRUE).paid > 0

\* C7 (canonical empty state): an account whose amount is 0 has its other
\* four fields 0 and get_deposit_info returns (0, 0, 0, 0) for it; a
\* successful withdraw or emergency_withdraw leaves the caller so.
C7_CanonicalEmptyState ==
  /\ \A u \in Users :
       deposits[u].amount = 0 =>
         /\ deposits[u].lock_time = 0
         /\ deposits[u].unlock_time = 0
         /\ deposits[u].last_reward_claim = 0
         /\ deposits[u].accumulated_rewards = 0
         /\ get_deposit_info(Storage, now, u) = <<0, 0, 0, 0>>
  /\ \A s \in Users, accept \in BOOLEAN :
       \A o \in {withdraw(Storage, now, s, accept),
                 emergency_withdraw(Storage, s, accept)} :
         o.result = "Ok" =>
           \A step \in {0} \cup Steps :
             get_deposit_info(o.st, now + step, s) = <<0, 0, 0, 0>>

\* C7 witness: every deposit made so far has been paid out again, and time
\* has passed since.
C7_Witness ==
  /\ deposit_count > 0
  /\ \A u \in Users : deposits[u].amount = 0
  /\ held = 0
  /\ now > 86401

\* C8 (one-way gate): once emergency_mode is true it stays true.
C8_EmergencyModeOneWay == [][emergency_mode => emergency_mode']_vars

\* C8 witness: emergency mode is on and initialize is called again.
C8_Witness ==
  /\ emergency_mode
  /\ \E s \in Users, r \in Rates, m \in Multipliers :
       initialize(Storage, s, r, m).result = "Unauthorized"

\* C9 as stated: activate_emergency_mode by a caller other than the owner
\* fails with Unauthorized in every state and leaves the flag unchanged; by
\* the owner it fails with EmergencyModeActive when the flag is set and
\* otherwise sets the flag.
C9_AsStated ==
  \A s \in Users :
    LET o == activate_emergency_mode(Storage, s)
    IN  /\ s # owner =>
             /\ o.result = "Unauthorized"
             /\ o.st = Storage
        /\ (s = owner /\ emergency_mode) =>
             /\ o.result = "EmergencyModeActive"
             /\ o.st = Storage
        /\ (s = owner /\ ~emergency_mode) =>
             /\ o.result = "Ok"
             /\ o.st = [Storage EXCEPT !.emergency_mode = TRUE]

\* C9 amended: while the flag is set the call fails with
\* EmergencyModeActive for every caller, the owner or not; while it is not
\* set, a caller other than the owner fails with Unauthorized and the owner
\* sets the flag; every failing call leaves the storage unchanged.
C9_ActivateOutcomes ==
  \A s \in Users :
    LET o == activate_emergency_mode(Storage, s)
    IN  /\ emergency_mode =>
             /\ o.result = "EmergencyModeActive"
             /\ o.st = Storage
        /\ (~emergency_mode /\ s # owner) =>
             /\ o.result = "Unauthorized"
             /\ o.st = Storage
        /\ (~emergency_mode /\ s = owner) =>
             /\ o.result = "Ok"
             /\ o.st = [Storage EXCEPT !.emergency_mode = TRUE]

\* C9 witness: the flag is set and a caller other than the owner calls.
C9_Witness ==
  /\ emergency_mode
  /\ \E s \in Users :
       /\ s # owner
       /\ activate_emergency_mode(Storage, s).result = "EmergencyModeActive"

\* C10 (deposit preconditions): deposit fails with EmergencyModeActive when
\* the flag is set; otherwise with InsufficientBalance when the value is 0,
\* whatever the lock period; otherwise with InvalidLockPeriod when the lock
\* period is below 86400 or above 31536000; 86400 and 31536000 are
\* accepted; every failure leaves the storage unchanged.
C10_DepositPreconditions ==
  \A s \in Users, v \in {0, 1, 7},
     p \in {0, 86399, 86400, 86401, 31535999, 31536000, 31536001} :
    LET o == deposit(Storage, now, s, v, p)
    IN  /\ emergency_mode => o.result = "EmergencyModeActive"
        /\ (~emergency_mode /\ v = 0) =>
             /\ o.result = "InsufficientBalance"
             /\ o.err = 0
        /\ (~emergency_mode /\ v > 0 /\ (p < 86400 \/ p > 31536000)) =>
             /\ o.result = "InvalidLockPeriod"
             /\ o.err = p
        /\ (~emergency_mode /\ v > 0 /\ p >= 86400 /\ p <= 31536000) =>
             o.result = "Ok"
        /\ o.result # "Ok" =>
             /\ o.st = Storage
             /\ ~o.attempted

\* C10 witness: an account that holds a deposit has a deposit call rejected
\* for its lock period, and the same call with the limit itself accepted.
C10_Witness ==
  \E s \in Users :
    /\ deposits[s].amount > 0
    /\ total_locked > 0
    /\ deposit(Storage, now, s, 7, 31536001).result = "InvalidLockPeriod"
    /\ deposit(Storage, now, s, 7, 31536000).result = "Ok"

\* C11 (deposit effect): a successful deposit of value v with lock period p
\* at time now leaves the caller's record as amount = v, lock_time = now,
\* unlock_time = now + p, last_reward_claim = now, and accumulated_rewards =
\* the prior accumulated_rewards plus the prior record's unsettled interest
\* when the prior amount was positive, the prior accumulated_rewards
\* otherwise; total_locked grows by exactly v; no other record changes and
\* nothing is transferred.  (Values for which no sum leaves the word.)
C11_DepositEffect ==
  \A s \in Users, v \in {1, 7}, p \in {86400, 86401, 31536000} :
    LET d == deposits[s]
        u == calculate_pending_rewards(Storage, now, s)
        o == deposit(Storage, now, s, v, p)
    IN  o.result = "Ok" =>
          /\ o.st.deposits[s] =
               [amount |-> v,
                lock_time |-> now,
                unlock_time |-> now + p,
                last_reward_claim |-> now,
                accumulated_rewards |->
                  IF d.amount > 0
                  THEN d.accumulated_rewards + u
                  ELSE d.accumulated_rewards]
          /\ o.st.total_locked = total_locked + v
          /\ o.st.held = held + v
          /\ \A other \in Users \ {s} : o.st.deposits[other] = deposits[other]
          /\ o.st.owner = owner
          /\ o.st.emergency_mode = emergency_mode
          /\ o.st.base_reward_rate = base_reward_rate
          /\ o.st.time_bonus_multiplier = time_bonus_multiplier
          /\ ~o.attempted

\* C11 witness: an account whose record has settled and unsettled rewards
\* deposits again, and an account without a record deposits.
C11_Witness ==
  \E s1, s2 \in Users :
    /\ deposits[s1].amount > 0
    /\ deposits[s1].accumulated_rewards > 0
    /\ calculate_pending_rewards(Storage, now, s1) > 0
    /\ deposit(Storage, now, s1, 7, 86400).result = "Ok"
    /\ deposits[s2].amount = 0
    /\ deposit(Storage, now, s2, 7, 86400).result = "Ok"

\* C12 (claim-rewards effect and frame): for an account with amount > 0,
\* claim_rewards computes total = accumulated_rewards + unsettled interest;
\* when total = 0 it returns Ok, attempts no transfer and writes nothing;
\* when total > 0 and the transfer succeeds it sets last_reward_claim = now
\* and accumulated_rewards = 0 and transfers exactly total; in both cases
\* amount, lock_time, unlock_time, total_locked and every other record are
\* unchanged.
C12_ClaimRewardsEffect ==
  \A s \in Users, accept \in BOOLEAN :
    LET d == deposits[s]
        total == d.accumulated_rewards + calculate_pending_rewards(Storage, now, s)
        o == claim_rewards(Storage, now, s, accept)
    IN  d.amount > 0 =>
          /\ total = 0 =>
               /\ o.result = "Ok"
               /\ ~o.attempted
               /\ o.paid = 0
               /\ o.st = Storage
          /\ (total > 0 /\ transfer_eth(Storage, total, accept)) =>
               o.result = "Ok"
          /\ (total > 0 /\ o.result = "Ok") =>
               /\ o.attempted
               /\ o.paid = total
               /\ o.st.held = held - total
               /\ o.st.deposits[s].last_reward_claim = now
               /\ o.st.deposits[s].accumulated_rewards = 0
          /\ o.result = "Ok" =>
               /\ o.st.deposits[s].amount = d.amount
               /\ o.st.deposits[s].lock_time = d.lock_time
               /\ o.st.deposits[s].unlock_time = d.unlock_time
               /\ o.st.total_locked = total_locked
               /\ \A other \in Users \ {s} : o.st.deposits[other] = deposits[other]
               /\ o.st.owner = owner
               /\ o.st.emergency_mode = emergency_mode
               /\ o.st.base_reward_rate = base_reward_rate
               /\ o.st.time_bonus_multiplier = time_bonus_multiplier

\* C12 witness: one account's claim finds a total of zero, another's pays
\* its unsettled interest.
C12_Witness ==
  \E s1, s2 \in Users :
    /\ deposits[s1].amount > 0
    /\ deposits[s1].accumulated_rewards + calculate_pending_rewards(Storage, now, s1) = 0
    /\ claim_rewards(Storage, now, s1, TRUE).result = "Ok"
    /\ calculate_pending_rewards(Storage, now, s2) > 0
    /\ claim_rewards(Storage, now, s2, TRUE).paid
         = deposits[s2].accumulated_rewards
             + calculate_pending_rewards(Storage, now, s2)

\* C13 (emergency-withdraw gate): while emergency_mode is false every
\* emergency_withdraw call fails with EmergencyModeNotActive, also for a
\* caller without a deposit, and writes nothing; while it is true a caller
\* with amount > 0 is never rejected for the lock: the call reaches the
\* transfer whether now is before unlock_time or not, and succeeds when the
\* transfer does.  The second half is also checked for the storage left by
\* the owner's activate_emergency_mode in the current state.
C13_EmergencyWithdrawGate ==
  /\ \A s \in Users, accept \in BOOLEAN :
       LET d == deposits[s]
           o == emergency_withdraw(Storage, s, accept)
       IN  /\ ~emergency_mode =>
                /\ o.result = "EmergencyModeNotActive"
                /\ o.st = Storage
                /\ ~o.attempted
           /\ (emergency_mode /\ d.amount > 0) =>
                /\ o.attempted
                /\ o.result \in {"Ok", "TransferFailed"}
                /\ transfer_eth(Storage, d.amount - (d.amount * 15) \div 100, accept)
                     => o.result = "Ok"
  /\ \A s \in Users :
       LET activated == activate_emergency_mode(Storage, owner)
           o == emergency_withdraw(activated.st, s, TRUE)
       IN  (owner # ZERO /\ activated.result = "Ok" /\ deposits[s].amount > 0) =>
             /\ o.attempted
             /\ o.result \in {"Ok", "TransferFailed"}

\* C13 witness: emergency mode is off, an account whose lock has not expired
\* is refused with EmergencyModeNotActive, and once the owner has activated
\* emergency mode the same account's call succeeds inside the lock.
C13_Witness ==
  \E s \in Users :
    /\ ~emergency_mode
    /\ owner # ZERO
    /\ deposits[s].amount > 0
    /\ now < deposits[s].unlock_time
    /\ emergency_withdraw(Storage, s, TRUE).result = "EmergencyModeNotActive"
    /\ emergency_withdraw(activate_emergency_mode(Storage, owner).st, s, TRUE).result
         = "Ok"

\* C14 (NoDeposit): for a caller whose record has amount = 0, withdraw and
\* claim_rewards fail with NoDeposit in every state, and emergency_withdraw
\* fails with NoDeposit whenever emergency_mode is true; none of these
\* failing calls writes anything or attempts a transfer.  The calls are
\* made now and one clock step later.
C14_NoDeposit ==
  \A s \in Users, accept \in BOOLEAN, step \in {0} \cup Steps :
    deposits[s].amount = 0 =>
      /\ \A o \in {withdraw(Storage, now + step, s, accept),
                    claim_rewards(Storage, now + step, s, accept)} :
           /\ o.result = "NoDeposit"
           /\ o.st = Storage
           /\ ~o.attempted
      /\ emergency_mode =>
           LET o == emergency_withdraw(Storage, s, accept)
           IN  /\ o.result = "NoDeposit"
               /\ o.st = Storage
               /\ ~o.attempted

\* C14 witness: emergency mode is on, the vault holds another account's
\* deposit, and an account that has been paid out calls.
C14_Witness ==
  \E s, other \in Users :
    /\ emergency_mode
    /\ deposits[s].amount = 0
    /\ deposit_count > 1
    /\ deposits[other].amount > 0
    /\ held > 0
    /\ withdraw(Storage, now, s, TRUE).result = "NoDeposit"
    /\ emergency_withdraw(Storage, s, TRUE).result = "NoDeposit"

\* Rates passed to update_reward_rate in C15: zero, small, large, and the
\* largest value of the word.
AdministeredRates == {0, 1, 2, 12345, Modulus - 1}

\* The outcomes of every call other than initialize and update_reward_rate
\* that `sender` can make in the current state.
OtherCalls(sender, accept) ==
  {withdraw(Storage, now, sender, accept),
   emergency_withdraw(Storage, sender, accept),
   claim_rewards(Storage, now, sender, accept),
   activate_emergency_mode(Storage, sender)}
    \cup {deposit(Storage, now, sender, v, p) : v \in Values, p \in LockPeriods}

\* C15 (rate administration): update_reward_rate by a caller other than
\* owner fails with Unauthorized and leaves base_reward_rate unchanged; by
\* the owner it sets base_reward_rate to the given value, whatever the
\* value; in both cases every record, total_locked, time_bonus_multiplier
\* and emergency_mode are unchanged.  No call other than a successful
\* initialize or the owner's update_reward_rate changes base_reward_rate.
C15_RateAdministration ==
  /\ \A s \in Users, r \in AdministeredRates :
       LET o == update_reward_rate(Storage, s, r)
       IN  /\ s # owner =>
                /\ o.result = "Unauthorized"
                /\ o.st = Storage
           /\ s = owner =>
                /\ o.result = "Ok"
                /\ o.st = [Storage EXCEPT !.base_reward_rate = r]
           /\ ~o.attempted
  /\ \A s \in Users, accept \in BOOLEAN :
       \A o \in OtherCalls(s, accept) :
         o.st.base_reward_rate = base_reward_rate
  /\ \A s \in Users, r \in Rates, m \in Multipliers :
       LET o == initialize(Storage, s, r, m)
       IN  o.result # "Ok" => o.st.base_reward_rate = base_reward_rate

\* C15 witness: the vault has an owner, a deposit and a rate of 1; a caller
\* other than the owner is refused and the owner's call changes the rate.
C15_Witness ==
  \E s \in Users :
    /\ owner # ZERO
    /\ s # owner
    /\ base_reward_rate = 1
    /\ total_locked > 0
    /\ update_reward_rate(Storage, s, 12345).result = "Unauthorized"
    /\ update_reward_rate(Storage, owner, 12345).st.base_reward_rate = 12345

\* C16 (one-time initialization): once an initialize call has succeeded
\* (owner is no longer the zero address), every initialize call, by the
\* owner or anyone else and with any arguments, fails and leaves owner,
\* base_reward_rate, time_bonus_multiplier, emergency_mode and all other
\* storage unchanged; and no other call changes owner.
C16_OneTimeInitialization ==
  owner # ZERO =>
    /\ \A s \in Users, r \in AdministeredRates, m \in {0, 1, 2000} :
         LET o == initialize(Storage, s, r, m)
         IN  /\ o.result = "Unauthorized"
             /\ o.st = Storage
    /\ \A s \in Users, accept \in BOOLEAN :
         \A o \in OtherCalls(s, accept)
                   \cup {update_reward_rate(Storage, s, r) : r \in Rates} :
           o.st.owner = owner

\* C16 witness: after the first initialize the owner has activated
\* emergency mode and the vault holds a deposit, and initialize is called
\* again by the owner and by another account.
C16_Witness ==
  /\ owner # ZERO
  /\ emergency_mode
  /\ total_locked > 0
  /\ \E s \in Users :
       /\ s # owner
       /\ initialize(Storage, s, 1, 2000).result = "Unauthorized"
       /\ initialize(Storage, owner, 1, 2000).result = "Unauthorized"

\* The product a * b does not leave the word.
MulFits(a, b) == a = 0 \/ b <= (Modulus - 1) \div a

\* None of the intermediate results of the reward computation for record d
\* at time t leaves the word.
RewardFits(d, t) ==
  /\ MulFits(d.amount, base_reward_rate)
  /\ MulFits(d.amount * base_reward_rate, t - d.last_reward_claim)
  /\ MulFits(time_bonus_multiplier, d.unlock_time - d.lock_time)
  /\ 10000 + (time_bonus_multiplier * (d.unlock_time - d.lock_time)) \div 86400
       <= Modulus - 1
  /\ MulFits((d.amount * base_reward_rate * (t - d.last_reward_claim))
               \div RewardPrecision,
             10000 + (time_bonus_multiplier * (d.unlock_time - d.lock_time))
                       \div 86400)

\* C17 (reward formula): calculate_pending_rewards returns 0 for a record
\* with amount = 0, and otherwise
\*   floor( floor(amount * base_reward_rate * (now - last_reward_claim) / P)
\*          * (10000 + floor(time_bonus_multiplier * (unlock_time - lock_time)
\*                           / 86400))
\*          / 10000 )
\* with P the reward precision, each multiplication done before its
\* division.  Stated for every record, rate, multiplier and time for which
\* no intermediate result leaves the word; the function returns a value and
\* has no storage to write.
C17_RewardFormula ==
  \A u \in Users, step \in {0} \cup Steps :
    LET d == deposits[u]
        t == now + step
        pending == calculate_pending_rewards(Storage, t, u)
    IN  /\ d.amount = 0 => pending = 0
        /\ (d.amount > 0 /\ t >= d.last_reward_claim /\ RewardFits(d, t)) =>
             pending =
               (((d.amount * base_reward_rate * (t - d.last_reward_claim))
                   \div RewardPrecision)
                * (10000 + (time_bonus_multiplier * (d.unlock_time - d.lock_time))
                             \div 86400))
               \div 10000

\* C17 witness: a record whose reward is positive, is raised by the bonus,
\* and is lost when the division is done before the multiplication.
C17_Witness ==
  \E u \in Users :
    LET d == deposits[u]
    IN  /\ d.amount > 1
        /\ time_bonus_multiplier > 0
        /\ RewardFits(d, now)
        /\ calculate_pending_rewards(Storage, now, u)
             > (d.amount * base_reward_rate * (now - d.last_reward_claim))
                 \div RewardPrecision
        /\ (base_reward_rate * (now - d.last_reward_claim)) \div RewardPrecision = 0

\* C18 (live reward projection): get_deposit_info(account) returns
\* (amount, unlock_time, accumulated_rewards + unsettled interest at the
\* current time, lock_time); it is a view and returns only this tuple.  For
\* an account with amount > 0 the third component is what a claim_rewards
\* call by that account at the same timestamp transfers: the call succeeds
\* with exactly that payment whenever the transfer goes through.  Checked
\* now and one clock step later.
C18_LiveRewardProjection ==
  \A u \in Users, step \in {0} \cup Steps, accept \in BOOLEAN :
    LET d == deposits[u]
        t == now + step
        info == get_deposit_info(Storage, t, u)
        o == claim_rewards(Storage, t, u, accept)
    IN  /\ info = <<d.amount,
                    d.unlock_time,
                    d.accumulated_rewards + calculate_pending_rewards(Storage, t, u),
                    d.lock_time>>
        /\ d.amount > 0 =>
             /\ o.result = "Ok" => o.paid = info[3]
             /\ transfer_eth(Storage, info[3], accept) =>
                  /\ o.result = "Ok"
                  /\ o.paid = info[3]

\* C18 witness: an account with settled and unsettled rewards, whose claim
\* pays the projected figure, which is more than the stored one.
C18_Witness ==
  \E u \in Users :
    /\ deposits[u].accumulated_rewards > 0
    /\ get_deposit_info(Storage, now, u)[3] > deposits[u].accumulated_rewards
    /\ claim_rewards(Storage, now, u, TRUE).paid = get_deposit_info(Storage, now, u)[3]

\* The calls of `sender` at time t that compute the unsettled interest of
\* the caller's record.
RewardComputingCalls(sender, t, accept) ==
  {claim_rewards(Storage, t, sender, accept),
   withdraw(Storage, t, sender, accept),
   deposit(Storage, t, sender, 7, 86400)}

\* C19 (overflow is rejected, not wrapped): whenever an intermediate result
\* of the reward computation for the caller's record would leave the word,
\* claim_rewards, withdraw and deposit by that caller fail and leave the
\* storage unchanged; and a deposit whose value would take total_locked
\* beyond the word fails and leaves the storage unchanged.  The code breaks
\* it: every U256 operator reduces its result modulo the word and the
\* handler continues with the reduced value.
C19_OverflowRejected ==
  \A s \in Users, accept \in BOOLEAN :
    LET d == deposits[s]
    IN  /\ (d.amount > 0 /\ ~RewardFits(d, now)) =>
             \A o \in RewardComputingCalls(s, now, accept) :
               /\ o.result # "Ok"
               /\ o.st = Storage
        /\ (total_locked > 0 /\ ~emergency_mode) =>
             LET o == deposit(Storage, now, s, Modulus - 1, 86400)
             IN  /\ o.result # "Ok"
                 /\ o.st = Storage

\* The three value-transferring calls made by the recipient `sender` from
\* inside a transfer, on the storage `during` that the transfer finds.
Reentered(during, sender, accept) ==
  [withdraw |-> withdraw(during, now, sender, accept),
   emergency_withdraw |-> emergency_withdraw(during, sender, accept),
   claim_rewards |-> claim_rewards(during, now, sender, accept)]

EveryCallExceptRateBy(sender, P(_)) ==
  /\ \A accept \in BOOLEAN :
       /\ P(withdraw(Storage, now, sender, accept))
       /\ P(emergency_withdraw(Storage, sender, accept))
       /\ P(claim_rewards(Storage, now, sender, accept))
  /\ P(activate_emergency_mode(Storage, sender))
  /\ \A v \in Values, p \in LockPeriods : P(deposit(Storage, now, sender, v, p))
  /\ \A r \in Rates, m \in Multipliers : P(initialize(Storage, sender, r, m))

\* P holds of the outcome of every call `sender` can make now.
EveryCallBy(sender, P(_)) ==
  /\ EveryCallExceptRateBy(sender, P)
  /\ \A r \in Rates : P(update_reward_rate(Storage, sender, r))

\* C21 (lock-duration invariant): every account with amount > 0 has
\* unlock_time >= lock_time and unlock_time - lock_time in
\* [86400, 31536000]; a successful deposit with lock period p leaves the
\* caller with unlock_time - lock_time = p, and the caller's claim_rewards
\* one clock step later keeps it; in the current state neither the
\* account's own claim_rewards nor any call by another account changes
\* lock_time or unlock_time.
C21_LockDuration ==
  /\ \A u \in Users :
       deposits[u].amount > 0 =>
         /\ deposits[u].unlock_time >= deposits[u].lock_time
         /\ deposits[u].unlock_time - deposits[u].lock_time >= 86400
         /\ deposits[u].unlock_time - deposits[u].lock_time <= 31536000
  /\ \A u \in Users :
       LET LockKept(o) ==
             /\ o.st.deposits[u].lock_time = deposits[u].lock_time
             /\ o.st.deposits[u].unlock_time = deposits[u].unlock_time
       IN  deposits[u].amount > 0 =>
             /\ \A accept \in BOOLEAN :
                  LockKept(claim_rewards(Storage, now, u, accept))
             /\ \A other \in Users \ {u} : EveryCallBy(other, LockKept)
  /\ \A u \in Users, p \in {86400, 86401, 31536000} :
       LET o == deposit(Storage, now, u, 7, p)
           claimed == claim_rewards(o.st, now + 86400, u, TRUE)
       IN  o.result = "Ok" =>
             /\ o.st.deposits[u].unlock_time >= o.st.deposits[u].lock_time
             /\ o.st.deposits[u].unlock_time - o.st.deposits[u].lock_time = p
             /\ claimed.st.deposits[u].unlock_time
                  - claimed.st.deposits[u].lock_time = p

\* C21 witness: an account has deposited on top of its active record after
\* time had passed, and can deposit once more with the longest period.
C21_Witness ==
  \E u \in Users :
    /\ deposits[u].amount > 0
    /\ deposits[u].accumulated_rewards > 0
    /\ deposits[u].lock_time > 86400
    /\ deposits[u].unlock_time - deposits[u].lock_time = 86400
    /\ deposit(Storage, now, u, 7, 31536000).result = "Ok"

\* C22 (settlement-point invariant): with a clock that never decreases,
\* every record has last_reward_claim <= now, and every record with
\* amount > 0 has lock_time <= last_reward_claim; so the subtraction
\* current_time - last_reward_claim of calculate_pending_rewards does not
\* go below zero, now or at any later time.
C22_SettlementPoint ==
  \A u \in Users :
    LET d == deposits[u]
    IN  /\ d.last_reward_claim <= now
        /\ d.amount > 0 => d.lock_time <= d.last_reward_claim
        /\ \A step \in {0} \cup Steps :
             wrapping_sub(now + step, d.last_reward_claim)
               = (now + step) - d.last_reward_claim

\* C22 witness: an account deposited, claimed rewards later, and time has
\* passed again since the claim.
C22_Witness ==
  \E u \in Users :
    /\ deposits[u].amount > 0
    /\ deposits[u].lock_time < deposits[u].last_reward_claim
    /\ deposits[u].last_reward_claim < now

\* C23 (solvency): with the held value being what successful deposits
\* brought in minus what successful transfers sent out, the held value is at
\* least the sum of the amount fields of all records.  The code breaks it:
\* rewards are paid out of the held value, which consists of the deposits
\* only, so every reward paid leaves less than the principal behind.
C23_Solvency == held >= SumAmounts(Storage, Users)

\* C24 (no underflow of the aggregate): total_locked is at least the sum
\* of the amount fields of all records, so total_locked - amount in
\* withdraw and emergency_withdraw does not go below zero: whenever one of
\* them reaches its subtraction, the total_locked it writes is the integer
\* difference.  (Deposits whose values do not take total_locked beyond the
\* word.)
C24_NoAggregateUnderflow ==
  /\ total_locked >= SumAmounts(Storage, Users)
  /\ \A s \in Users, accept \in BOOLEAN :
       \A o \in {withdraw(Storage, now, s, accept),
                 emergency_withdraw(Storage, s, accept)} :
         o.attempted =>
           /\ total_locked >= deposits[s].amount
           /\ o.st.total_locked = total_locked - deposits[s].amount
           /\ o.st.total_locked >= SumAmounts(o.st, Users)

\* C24 witness: an account has deposited twice, so total_locked exceeds the
\* sum of the amounts, and its withdraw goes through.
C24_Witness ==
  \E s \in Users :
    /\ total_locked > SumAmounts(Storage, Users)
    /\ deposits[s].accumulated_rewards > 0
    /\ withdraw(Storage, now, s, TRUE).result = "Ok"

\* C25 (account isolation): deposit, withdraw, emergency_withdraw and
\* claim_rewards called by A, whether they succeed or fail, leave all five
\* fields of every other account's record unchanged, and every transfer
\* they attempt has A as its recipient; a call that attempts no transfer
\* sends nothing.
C25_AccountIsolation ==
  \A caller \in Users :
    LET Isolated(o) ==
          /\ \A other \in Users \ {caller} :
               o.st.deposits[other] = deposits[other]
          /\ o.attempted => o.to = caller
          /\ ~o.attempted => (o.paid = 0 /\ o.st.held >= held)
    IN  /\ \A accept \in BOOLEAN :
             /\ Isolated(withdraw(Storage, now, caller, accept))
             /\ Isolated(emergency_withdraw(Storage, caller, accept))
             /\ Isolated(claim_rewards(Storage, now, caller, accept))
        /\ \A v \in {0, 7}, p \in {86399, 86400, 31536000} :
             Isolated(deposit(Storage, now, caller, v, p))

\* C25 witness: two accounts hold deposits with unsettled interest, the
\* owner is the other one, and the caller's withdraw and claim_rewards each
\* make a transfer.
C25_Witness ==
  \E caller, other \in Users :
    /\ caller # other
    /\ owner = other
    /\ deposits[caller].amount > 0
    /\ deposits[other].amount > 0
    /\ calculate_pending_rewards(Storage, now, other) > 0
    /\ withdraw(Storage, now, caller, TRUE).paid > 0
    /\ claim_rewards(Storage, now, caller, TRUE).to = caller

\* The reward figure get_deposit_info reports for `user` on storage st now.
ReportedRewards(st, user) == get_deposit_info(st, now, user)[3]

\* C26 as stated: for an account with amount > 0 the reward figure of
\* get_deposit_info does not decrease when time advances or when another
\* account, the owner included, makes any call, update_reward_rate
\* included.
C26_AsStated ==
  \A u \in Users :
    LET before == ReportedRewards(Storage, u)
        NotLess(o) == ReportedRewards(o.st, u) >= before
    IN  deposits[u].amount > 0 =>
          /\ \A step \in Steps :
               get_deposit_info(Storage, now + step, u)[3] >= before
          /\ \A other \in Users \ {u} : EveryCallBy(other, NotLess)

\* C26 amended: for an account with amount > 0 the reward figure of
\* get_deposit_info does not decrease when time advances or when another
\* account makes any call except an update_reward_rate by the owner that
\* lowers base_reward_rate; an owner's update_reward_rate that does not
\* lower the rate does not decrease the figure.
C26_RewardsNeverShrink ==
  \A u \in Users :
    LET before == ReportedRewards(Storage, u)
        NotLess(o) == ReportedRewards(o.st, u) >= before
    IN  deposits[u].amount > 0 =>
          /\ \A step \in Steps :
               get_deposit_info(Storage, now + step, u)[3] >= before
          /\ \A other \in Users \ {u} :
               /\ EveryCallExceptRateBy(other, NotLess)
               /\ \A r \in Rates \cup {2} :
                    (other # owner \/ r >= base_reward_rate) =>
                      NotLess(update_reward_rate(Storage, other, r))

\* C26 witness: an account that is not the owner has unsettled interest;
\* the figure grows with time, and the owner's update_reward_rate to zero
\* would take the unsettled part away.
C26_Witness ==
  \E u \in Users :
    /\ owner # ZERO
    /\ owner # u
    /\ deposits[u].accumulated_rewards > 0
    /\ calculate_pending_rewards(Storage, now, u) > 0
    /\ get_deposit_info(Storage, now + 86400, u)[3] > ReportedRewards(Storage, u)
    /\ ReportedRewards(update_reward_rate(Storage, owner, 0).st, u)
         = deposits[u].accumulated_rewards

====
